---- MODULE Spec2Model ----
(***************************************************************************)
(* VisionViz: the scan -> detect -> select -> visualize pipeline.          *)
(*                                                                         *)
(*   Home        (src/app/api/visualize/route.ts, lines 117-283)           *)
(*   CameraFeed  (src/components/CameraFeed.tsx, lines 12-198)             *)
(*   TwoDScene   (src/components/renderers/TwoDScene.tsx)                  *)
(*   /api/ocr    (src/app/api/ocr/route.ts, block mapping)                 *)
(*                                                                         *)
(* Everything runs on one event loop: an action is one event handler, one  *)
(* timer callback, one React effect run, or the continuation of an async   *)
(* function after an await.                                                *)
(***************************************************************************)
EXTENDS Integers, Sequences, FiniteSets, TLC

\* ------------------------------------------------------------------ bounds
\* closures of the OCR effect that can be alive at once (the current one and
\* earlier ones that still hold a pending timeout or an unresolved call)
MaxLoops == 2
\* handleVisualise invocations that can be awaiting a response at once
MaxVisualise == 2
\* newest entries of Home.logs kept in the model (the program's list is
\* append-only and unbounded; older entries are dropped here)
MaxLogs == 2
\* runs of the TwoDScene effect (mounts and script replacements)
MaxEffects == 3
\* animation ticks delivered to one TwoDScene instance
MaxFrameCount == 3

NULL == "null"

\* ------------------------------------------------------------ environment
\* exact rationals <<numerator, denominator>>, denominator > 0
Rat(n, d) == <<n, d>>
RatMul(a, b) == <<a[1] * b[1], a[2] * b[2]>>
RatDiv(a, b) == <<a[1] * b[2], a[2] * b[1]>>
RatLeq(a, b) == a[1] * b[2] <= b[1] * a[2]

\* Elements of "blocks" in the JSON the vision model writes:
\* box_2d = [ymin, xmin, ymax, xmax] on a 0-1000 scale.  Nothing makes the
\* model keep to the scale or to the order: ItemC is reversed in y and runs
\* past the right edge.
ItemA == [text |-> "Photosynthesis", box_2d |-> <<100, 200, 300, 600>>]
ItemB == [text |-> "Mitochondria", box_2d |-> <<200, 400, 500, 800>>]
ItemC == [text |-> "Chloroplast", box_2d |-> <<700, 900, 650, 1200>>]

\* parsedData.blocks of the outputs the vision model may give
GeminiOutputs == { <<>>, <<ItemA, ItemB>>, <<ItemB>>, <<ItemC>> }

\* the block mapping with box_2d read as [xmin, ymin, xmax, ymax]
MapBlockXFirst(b) ==
    [text |-> b.text,
     bbox |-> [x0 |-> RatDiv(Rat(b.box_2d[1], 1), Rat(1000, 1)),
               y0 |-> RatDiv(Rat(b.box_2d[2], 1), Rat(1000, 1)),
               x1 |-> RatDiv(Rat(b.box_2d[3], 1), Rat(1000, 1)),
               y1 |-> RatDiv(Rat(b.box_2d[4], 1), Rat(1000, 1))]]

\* /api/ocr: (parsedData.blocks || []).map(b => ({text, bbox: {...}}))
MapBlock(b) ==
    [text |-> b.text,
     bbox |-> [y0 |-> RatDiv(Rat(b.box_2d[1], 1), Rat(1000, 1)),
               x0 |-> RatDiv(Rat(b.box_2d[2], 1), Rat(1000, 1)),
               y1 |-> RatDiv(Rat(b.box_2d[3], 1), Rat(1000, 1)),
               x1 |-> RatDiv(Rat(b.box_2d[4], 1), Rat(1000, 1))]]

MapBlocks(items) == [k \in 1 .. Len(items) |-> MapBlock(items[k])]

\* Blocks as /api/ocr returns them
BlockA == MapBlock(ItemA)
BlockB == MapBlock(ItemB)
BlockC == MapBlock(ItemC)

\* Outputs that keep to the contract: every coordinate on the 0-1000 scale,
\* ymin <= ymax and xmin <= xmax.
Coords == { 0, 200, 1000 }
ValidBoxes ==
    { b \in Coords \X Coords \X Coords \X Coords : b[1] <= b[3] /\ b[2] <= b[4] }
ValidOutputs ==
    { <<>>, <<ItemA, ItemB>>, <<ItemB, ItemA>> }
        \cup { <<[text |-> "Photosynthesis", box_2d |-> b]>> : b \in ValidBoxes }

\* data.blocks of the detection responses the client may receive
Responses == { MapBlocks(o) : o \in GeminiOutputs }

\* canvas.getBoundingClientRect() and the canvas' pixel size (a 1:2 ratio)
Rect == [left |-> 10, top |-> 20, width |-> 100, height |-> 50]
Canvas == [width |-> 200, height |-> 100]

\* Other sizes the canvas may have: the element's box follows the window,
\* the pixel size is 300x150 until the overlay effect copies the video's.
Layouts ==
    { [rect |-> Rect, canvas |-> Canvas],
      [rect |-> Rect, canvas |-> [width |-> 300, height |-> 150]],
      [rect |-> Rect, canvas |-> [width |-> 1920, height |-> 1080]],
      [rect |-> [left |-> 0, top |-> 0, width |-> 200, height |-> 100], canvas |-> Canvas],
      [rect |-> [left |-> 0, top |-> 0, width |-> 400, height |-> 300], canvas |-> Canvas] }

\* pointer positions (clientX, clientY) the user may click
ClickPoints == { <<50, 30>>, <<40, 27>>, <<80, 40>>, <<100, 65>> }

\* the values the user may type into the "Colab Backend URL" field
ColabUrls == { "", "https://viz.loca.lt" }

VARIABLES
    \* ---- Home (useState)
    logs,           \* LogEntry[], newest last
    selectedText,   \* string
    isScanning,     \* boolean
    vizType,        \* '2D' | '3D' | null
    vizScript,      \* string
    glbUrl,         \* string | null
    colabUrl,       \* string
    \* ---- Home: handleVisualise invocations suspended at an await
    reqs,
    \* ---- browser: object URLs created and not revoked
    objectUrls,
    \* ---- CameraFeed
    ocrBlocks,      \* OCRBlock[]
    camera,         \* getUserMedia: "pending" | "ready" | "failed"
    mounted,        \* Home and its CameraFeed are mounted
    tracks,         \* the tracks of the acquired MediaStream: "none" | "live" | "stopped"
    layout,         \* the overlay canvas: its bounding client rect and its pixel size
    loops,          \* closures of the OCR effect: timers and isProcessing
    cur,            \* the closure of the effect's latest run (0: none)
    effectPending,  \* Home re-rendered; the OCR effect is due to re-run
    superseded,     \* history: calls started before a reset or a selection
    \* ---- TwoDScene
    sceneScript,    \* the script prop (NULL: not mounted)
    effects,        \* runs of the effect so far; the latest run is the current one
    frameCount,     \* frameCountRef.current
    animationFrame, \* animationFrameRef.current: the run that requested the latest frame
    rafPending,     \* requestAnimationFrame callbacks not yet run nor cancelled
    listeners,      \* window 'resize' listeners attached, by the run that added them
    cleanup,        \* the run whose cleanup React holds (0: the effect returned none)
    canvasShows,    \* what the canvas displays: "blank" | "error" | "frame"
    lastDraw        \* history: the latest invocation of a compiled drawFrame

homeVars == <<logs, selectedText, isScanning, vizType, vizScript, glbUrl, colabUrl>>
vizVars  == <<reqs, objectUrls>>
feedVars == <<ocrBlocks, camera, mounted, tracks, layout, loops, cur, effectPending, superseded>>
sceneVars == <<sceneScript, effects, frameCount, animationFrame, rafPending,
               listeners, cleanup, canvasShows, lastDraw>>
vars     == <<homeVars, vizVars, feedVars, sceneVars>>

\* ------------------------------------------------------------------ logs
Entry(message, type) == [message |-> message, type |-> type]

\* Home.addLog: setLogs(prev => [...prev, entry])
addLog(l, message, type) ==
    IF Len(l) < MaxLogs THEN Append(l, Entry(message, type))
                        ELSE Append(Tail(l), Entry(message, type))

NumStr(n) == CASE n = 0 -> "0" [] n = 1 -> "1" [] n = 2 -> "2" [] OTHER -> "n"

\* ------------------------------------------------------- OCR loop closures
LoopIds == 1 .. MaxLoops

\* One closure of the "OCR Loop" effect: its setInterval, its setTimeout and
\* its local isProcessing.  isScanning is captured as true in every closure
\* that holds a timer, because timers are set only under "if (isScanning)".
IdleLoop == [interval |-> FALSE, timeout |-> FALSE, isProcessing |-> FALSE]

\* the detection calls outstanding (a fetch awaited by runOCR)
Outstanding == { j \in LoopIds : loops[j].isProcessing }

VideoReady == camera = "ready"

\* ------------------------------------------- handleVisualise invocations
ReqIds == 1 .. MaxVisualise

\* One invocation of handleVisualise suspended at an await: "plan" awaits
\* fetch('/api/visualize'), "render" awaits fetch(colabUrl + '/render').
\* text and colabUrl are the values of the render the handler closed over.
FreeReq == [stage |-> "free", text |-> "", colabUrl |-> "", script |-> ""]

\* what /api/visualize answers: VisualizationResponse
Plans ==
    { [type |-> "2D", script |-> "ctx.fillRect(0,0,10,10)", reasoning |-> "diagram"],
      [type |-> "2D", script |-> "", reasoning |-> "diagram"],
      [type |-> "3D", script |-> "import bpy", reasoning |-> "organelle"] }

\* err.message of an error thrown by fetch, res.json() or colabRes.blob()
ThrownMessages == { "Failed to fetch", "" }

\* ------------------------------------------------------------- TwoDScene
\* script props: one that compiles, one that throws while drawing frame 1,
\* one that "new Function" rejects
Scripts == { "ctx.fillRect(0,0,10,10)", "if (frameCount === 1) throw 0", "ctx.fillRect(" }

\* new Function('ctx', 'width', 'height', 'frameCount', script) returns
Compiles(script) == script # "ctx.fillRect("

\* drawFrame(ctx, width, height, n) throws
Throws(script, n) == script = "if (frameCount === 1) throw 0" /\ n = 1

\* what a pending requestAnimationFrame callback closes over
RafRequests == [effect : 1 .. MaxEffects, script : Scripts]

NoDraw == [effect |-> 0, script |-> "", frameCount |-> -1]

\* no TwoDScene is mounted
SceneInit ==
    /\ sceneScript = NULL
    /\ effects = 0
    /\ frameCount = 0
    /\ animationFrame = 0
    /\ rafPending = {}
    /\ listeners = {}
    /\ cleanup = 0
    /\ canvasShows = "blank"
    /\ lastDraw = NoDraw

Init ==
    /\ SceneInit
    /\ logs = <<>>
    /\ selectedText = ""
    /\ isScanning = TRUE
    /\ vizType = NULL
    /\ vizScript = ""
    /\ glbUrl = NULL
    /\ colabUrl = ""
    /\ reqs = [i \in ReqIds |-> FreeReq]
    /\ objectUrls = {}
    /\ ocrBlocks = <<>>
    /\ camera = "pending"
    /\ mounted = TRUE
    /\ tracks = "none"
    /\ layout = [rect |-> Rect, canvas |-> Canvas]
    \* the effects of the first render have run: isScanning is true
    /\ loops = [j \in LoopIds |->
                  IF j = 1 THEN [interval |-> TRUE, timeout |-> TRUE, isProcessing |-> FALSE]
                           ELSE IdleLoop]
    /\ cur = 1
    /\ effectPending = FALSE
    /\ superseded = {}

\* --------------------------------------------------------------- geometry
\* handleCanvasClick: display pixels -> canvas pixels -> normalised
\* NormX without scaleX: display pixels divided by the canvas' pixel width
NormXNoScale(clientX) ==
    LET rect == layout.rect
        canvas == layout.canvas
        x == Rat(clientX - rect.left, 1)
    IN  RatDiv(x, Rat(canvas.width, 1))

NormX(clientX) ==
    LET rect == layout.rect
        canvas == layout.canvas
        scaleX == RatDiv(Rat(canvas.width, 1), Rat(rect.width, 1))
        x == RatMul(Rat(clientX - rect.left, 1), scaleX)
    IN  RatDiv(x, Rat(canvas.width, 1))

NormY(clientY) ==
    LET rect == layout.rect
        canvas == layout.canvas
        scaleY == RatDiv(Rat(canvas.height, 1), Rat(rect.height, 1))
        y == RatMul(Rat(clientY - rect.top, 1), scaleY)
    IN  RatDiv(y, Rat(canvas.height, 1))

\* the predicate of ocrBlocks.find(...)
Contains(b, normX, normY) ==
    /\ RatLeq(b.bbox.x0, normX) /\ RatLeq(normX, b.bbox.x1)
    /\ RatLeq(b.bbox.y0, normY) /\ RatLeq(normY, b.bbox.y1)

\* Array.prototype.find: the first element satisfying the predicate
Hits(blocks, normX, normY) == { k \in 1 .. Len(blocks) : Contains(blocks[k], normX, normY) }
\* the last element satisfying the predicate
LastHit(blocks, normX, normY) ==
    LET h == Hits(blocks, normX, normY)
    IN  CHOOSE k \in h : \A m \in h : k >= m

FirstHit(blocks, normX, normY) ==
    LET h == Hits(blocks, normX, normY)
    IN  CHOOSE k \in h : \A m \in h : k <= m

\* ------------------------------------------------------------ rendering
\* Layer 2 of Home: a visualization covers the camera canvas
ThreeSceneMounted == vizType = "3D" /\ glbUrl # NULL
TwoDSceneMounted == vizType = "2D" /\ vizScript # ""
CanvasReachable == mounted /\ ~ThreeSceneMounted /\ ~TwoDSceneMounted

\* "Center Interaction Area": the Visualise and Cancel buttons are rendered
ButtonsShown == mounted /\ selectedText # "" /\ vizType = NULL

\* ------------------------------------------------------------ CameraFeed
\* React runs the effects of a render right after its commit, before the
\* next timer or network callback.  (Home's own handlers are not held back
\* in the model: two renders before a flush count as one.)
EffectsFlushed == ~effectPending

\* setupCamera: getUserMedia resolved and the video element has its data.
\* After the unmount videoRef.current is null and setStream does nothing:
\* the stream is acquired and nothing refers to it.
CameraReady ==
    /\ camera = "pending"
    /\ EffectsFlushed
    /\ camera' = "ready"
    /\ tracks' = "live"
    /\ IF mounted
       THEN /\ logs' = addLog(logs, "Camera Ready: 1920x1080", "info")
            /\ effectPending' = TRUE
       ELSE UNCHANGED <<logs, effectPending>>
    /\ UNCHANGED <<selectedText, isScanning, vizType, vizScript, glbUrl, colabUrl>>
    /\ UNCHANGED <<vizVars, ocrBlocks, mounted, layout, loops, cur, superseded>>
    /\ UNCHANGED sceneVars

\* setupCamera: getUserMedia rejected
CameraFails ==
    /\ camera = "pending"
    /\ mounted
    /\ EffectsFlushed
    /\ camera' = "failed"
    /\ logs' = addLog(logs, "Failed to access camera", "error")
    /\ effectPending' = TRUE
    /\ UNCHANGED <<selectedText, isScanning, vizType, vizScript, glbUrl, colabUrl>>
    /\ UNCHANGED <<vizVars, ocrBlocks, mounted, tracks, layout, loops, cur, superseded>>
    /\ UNCHANGED sceneVars

\* The "OCR Loop" effect re-runs because onLog (Home.addLog, a new function
\* on every render of Home) or isScanning changed: the cleanup of the last
\* run clears its interval and nothing else, then the body runs again with
\* a fresh isProcessing.
Cleanup(l) == IF cur = 0 THEN l ELSE [l EXCEPT ![cur].interval = FALSE]

OCREffect ==
    /\ effectPending
    /\ effectPending' = FALSE
    /\ LET l == Cleanup(loops)
           free == { j \in LoopIds : l[j] = IdleLoop }
       IN  IF isScanning
           THEN /\ free # {}
                /\ LET j == CHOOSE k \in free : \A m \in free : k <= m
                   IN  /\ loops' = [l EXCEPT ![j] = [interval |-> TRUE, timeout |-> TRUE,
                                                     isProcessing |-> FALSE]]
                       /\ cur' = j
           ELSE /\ loops' = l
                /\ cur' = 0
    /\ UNCHANGED <<homeVars, vizVars, ocrBlocks, camera, mounted, tracks, layout, superseded>>
    /\ UNCHANGED sceneVars

\* runOCR without the guard on video.readyState and video.videoWidth
runOCRNoVideoCheck(l, j) ==
    IF ~mounted \/ l[j].isProcessing
    THEN l
    ELSE [l EXCEPT ![j].isProcessing = TRUE]

\* runOCR up to its await.  Every closure that holds a timer captured
\* isScanning = true, so "!isScanning" never returns early; videoRef.current
\* is set while the component is mounted and null afterwards.
runOCR(l, j) ==
    IF ~mounted \/ l[j].isProcessing \/ ~VideoReady
    THEN l
    ELSE [l EXCEPT ![j].isProcessing = TRUE]

\* setTimeout(runOCR, 1000) of closure j fires
TimeoutFires(j) ==
    /\ loops[j].timeout
    /\ EffectsFlushed
    /\ loops' = runOCR([loops EXCEPT ![j].timeout = FALSE], j)
    /\ UNCHANGED <<homeVars, vizVars, ocrBlocks, camera, mounted, tracks, layout, cur, effectPending, superseded>>
    /\ UNCHANGED sceneVars

\* setInterval(runOCR, 4000) of closure j ticks; its first tick comes after
\* the 1000 ms timeout that was set together with it
IntervalTicks(j) ==
    /\ loops[j].interval
    /\ ~loops[j].timeout
    /\ EffectsFlushed
    /\ loops' = runOCR(loops, j)
    /\ UNCHANGED <<homeVars, vizVars, ocrBlocks, camera, mounted, tracks, layout, cur, effectPending, superseded>>
    /\ UNCHANGED sceneVars

\* runOCR without its "finally": the flag stays set after the call
FinallyKeepsFlag(j) == loops

\* "finally { isProcessing = false }"
Finally(j) == [loops EXCEPT ![j].isProcessing = FALSE]

\* OCRResponseOK with the earlier list kept when the response has no block
OCRResponseOKKeepsOnEmpty(j, blocks) ==
    /\ loops[j].isProcessing
    /\ EffectsFlushed
    /\ IF mounted
       THEN /\ ocrBlocks' = IF blocks = <<>> THEN ocrBlocks ELSE blocks
            /\ logs' = addLog(logs, "Detected " \o NumStr(Len(blocks)) \o " text blocks via Gemini", "info")
            /\ effectPending' = TRUE
       ELSE \* setOcrBlocks and setLogs of unmounted components do nothing
            UNCHANGED <<ocrBlocks, logs, effectPending>>
    /\ loops' = Finally(j)
    /\ superseded' = superseded \ {j}
    /\ UNCHANGED <<selectedText, isScanning, vizType, vizScript, glbUrl, colabUrl>>
    /\ UNCHANGED <<vizVars, camera, mounted, tracks, layout, cur>>
    /\ UNCHANGED sceneVars

\* the fetch of closure j resolves: response.ok and data.blocks is an array
OCRResponseOK(j, blocks) ==
    /\ loops[j].isProcessing
    /\ EffectsFlushed
    /\ IF mounted
       THEN /\ ocrBlocks' = blocks
            /\ logs' = addLog(logs, "Detected " \o NumStr(Len(blocks)) \o " text blocks via Gemini", "info")
            /\ effectPending' = TRUE
       ELSE \* setOcrBlocks and setLogs of unmounted components do nothing
            UNCHANGED <<ocrBlocks, logs, effectPending>>
    /\ loops' = Finally(j)
    /\ superseded' = superseded \ {j}
    /\ UNCHANGED <<selectedText, isScanning, vizType, vizScript, glbUrl, colabUrl>>
    /\ UNCHANGED <<vizVars, camera, mounted, tracks, layout, cur>>
    /\ UNCHANGED sceneVars

\* response.ok, but the body holds no array of blocks
OCRResponseNoBlocks(j) ==
    /\ loops[j].isProcessing
    /\ EffectsFlushed
    /\ loops' = Finally(j)
    /\ superseded' = superseded \ {j}
    /\ UNCHANGED <<homeVars, vizVars, ocrBlocks, camera, mounted, tracks, layout, cur, effectPending>>
    /\ UNCHANGED sceneVars

\* !response.ok: console.error("OCR API failed")
OCRResponseNotOK(j) ==
    /\ loops[j].isProcessing
    /\ EffectsFlushed
    /\ loops' = Finally(j)
    /\ superseded' = superseded \ {j}
    /\ UNCHANGED <<homeVars, vizVars, ocrBlocks, camera, mounted, tracks, layout, cur, effectPending>>
    /\ UNCHANGED sceneVars

\* fetch or response.json() throws: console.error("OCR Error:", err)
OCRFetchThrows(j) ==
    /\ loops[j].isProcessing
    /\ EffectsFlushed
    /\ loops' = Finally(j)
    /\ superseded' = superseded \ {j}
    /\ UNCHANGED <<homeVars, vizVars, ocrBlocks, camera, mounted, tracks, layout, cur, effectPending>>
    /\ UNCHANGED sceneVars

\* handleTextSelected without setIsScanning(false)
handleTextSelectedKeepsScanning(text) ==
    /\ selectedText' = text
    /\ isScanning' = isScanning

\* Home.handleTextSelected followed by onLog, as handleCanvasClick calls them
handleTextSelected(text) ==
    /\ selectedText' = text
    /\ isScanning' = FALSE

handleCanvasClick(p) ==
    /\ CanvasReachable
    /\ LET normX == NormX(p[1])
           normY == NormY(p[2])
       IN  IF Hits(ocrBlocks, normX, normY) # {}
           THEN LET clickedBlock == ocrBlocks[FirstHit(ocrBlocks, normX, normY)]
                IN  /\ handleTextSelected(clickedBlock.text)
                    /\ logs' = addLog(logs, "Selected: \"" \o clickedBlock.text \o "\"", "success")
                    /\ effectPending' = TRUE
                    /\ superseded' = Outstanding
                    /\ UNCHANGED <<vizType, vizScript, glbUrl, colabUrl>>
                    /\ UNCHANGED <<vizVars, ocrBlocks, camera, mounted, tracks, layout, loops, cur>>
           ELSE UNCHANGED <<homeVars, vizVars, feedVars>>
    /\ UNCHANGED sceneVars

\* ------------------------------------------------------------------ Home
\* the Cancel button
handleReset ==
    /\ ButtonsShown
    /\ selectedText' = ""
    /\ vizType' = NULL
    /\ vizScript' = ""
    /\ glbUrl' = NULL
    /\ isScanning' = TRUE
    /\ logs' = addLog(logs, "System reset. Resume scanning.", "info")
    /\ effectPending' = TRUE
    /\ superseded' = Outstanding
    /\ UNCHANGED <<colabUrl, vizVars, ocrBlocks, camera, mounted, tracks, layout, loops, cur>>
    /\ UNCHANGED sceneVars

\* ---------------------------------------------------------- teardown
\* the "stream" the cleanup of the "Initialize Camera" effect closes over:
\* the effect has no dependencies, so its cleanup is the one created in the
\* first render, where the state "stream" is still null
CleanupStream == NULL

\* The page is left: Home and CameraFeed unmount and React runs the cleanups
\* of both effects of CameraFeed.
UnmountFeed ==
    /\ mounted
    /\ mounted' = FALSE
    /\ tracks' = IF CleanupStream # NULL /\ tracks = "live" THEN "stopped" ELSE tracks
    /\ loops' = Cleanup(loops)
    /\ cur' = 0
    /\ effectPending' = FALSE
    /\ UNCHANGED <<homeVars, vizVars, ocrBlocks, camera, layout, superseded>>
    /\ UNCHANGED sceneVars

\* ------------------------------------------------- the capture loop alone
NextScan ==
    \/ CameraReady
    \/ CameraFails
    \/ OCREffect
    \/ \E j \in LoopIds : TimeoutFires(j)
    \/ \E j \in LoopIds : IntervalTicks(j)
    \/ \E j \in LoopIds, blocks \in Responses : OCRResponseOK(j, blocks)
    \/ \E j \in LoopIds : OCRResponseNoBlocks(j)
    \/ \E j \in LoopIds : OCRResponseNotOK(j)
    \/ \E j \in LoopIds : OCRFetchThrows(j)
    \/ \E p \in ClickPoints : handleCanvasClick(p)
    \/ handleReset
    \/ UnmountFeed

SpecScan == Init /\ [][NextScan]_vars

\* -------------------------------------- the capture loop left to itself
\* No pointer input: scanning stays enabled.  Timers that are armed fire and
\* React runs a pending effect; nothing is assumed about the camera or about
\* when, or whether, the detection endpoint answers.
NextLoop ==
    \/ CameraReady
    \/ CameraFails
    \/ OCREffect
    \/ \E j \in LoopIds : TimeoutFires(j)
    \/ \E j \in LoopIds : IntervalTicks(j)
    \/ \E j \in LoopIds, blocks \in Responses : OCRResponseOK(j, blocks)
    \/ \E j \in LoopIds : OCRResponseNoBlocks(j)
    \/ \E j \in LoopIds : OCRResponseNotOK(j)
    \/ \E j \in LoopIds : OCRFetchThrows(j)
    \/ UnmountFeed

SpecLoopFair ==
    /\ Init
    /\ [][NextLoop]_vars
    /\ WF_vars(OCREffect)
    /\ \A j \in LoopIds : WF_vars(TimeoutFires(j))
    /\ \A j \in LoopIds : WF_vars(IntervalTicks(j))

\* ------------------------------- the detection endpoint, contract kept
\* The capture loop over every output of the vision model that keeps to the
\* box_2d contract.
NextDetect ==
    \/ CameraReady
    \/ OCREffect
    \/ \E j \in LoopIds : TimeoutFires(j)
    \/ \E j \in LoopIds : IntervalTicks(j)
    \/ \E j \in LoopIds, o \in ValidOutputs : OCRResponseOK(j, MapBlocks(o))

SpecDetect == Init /\ [][NextDetect]_vars

TypeOK ==
    /\ selectedText \in {"", BlockA.text, BlockB.text, BlockC.text}
    /\ isScanning \in BOOLEAN
    /\ vizType \in {NULL, "2D", "3D"}
    /\ ocrBlocks \in Responses
    /\ camera \in {"pending", "ready", "failed"}
    /\ mounted \in BOOLEAN
    /\ tracks \in {"none", "live", "stopped"}
    /\ layout \in Layouts
    /\ cur \in 0 .. MaxLoops
    /\ Len(logs) <= MaxLogs

\* ------------------------------------------------------ Home: visualize
\* the "Colab Backend URL" input: onChange={(e) => setColabUrl(e.target.value)}
setColabUrl(u) ==
    /\ u # colabUrl
    /\ colabUrl' = u
    /\ effectPending' = TRUE
    /\ UNCHANGED <<logs, selectedText, isScanning, vizType, vizScript, glbUrl>>
    /\ UNCHANGED <<vizVars, ocrBlocks, camera, mounted, tracks, layout, loops, cur, superseded>>
    /\ UNCHANGED sceneVars

\* handleVisualiseCall without "if (!selectedText) return"
handleVisualiseCallNoGuard ==
    /\ \E i \in ReqIds : reqs[i].stage = "free"
    /\ LET i == CHOOSE k \in ReqIds :
                   /\ reqs[k].stage = "free"
                   /\ \A m \in ReqIds : reqs[m].stage = "free" => k <= m
       IN  /\ logs' = addLog(logs, "Analyzing: \"" \o selectedText \o "...\"", "info")
           /\ reqs' = [reqs EXCEPT ![i] = [stage |-> "plan", text |-> selectedText,
                                           colabUrl |-> colabUrl, script |-> ""]]
           /\ effectPending' = TRUE
           /\ UNCHANGED <<selectedText, isScanning, vizType, vizScript, glbUrl, colabUrl>>
           /\ UNCHANGED <<objectUrls, ocrBlocks, camera, mounted, tracks, layout, loops, cur, superseded>>
    /\ UNCHANGED sceneVars

\* a call of handleVisualise, whatever is rendered, up to
\* "await fetch('/api/visualize')"
handleVisualiseCall ==
    /\ \E i \in ReqIds : reqs[i].stage = "free"
    /\ IF selectedText = ""
       THEN UNCHANGED <<homeVars, vizVars, feedVars>>
       ELSE LET i == CHOOSE k \in ReqIds :
                       /\ reqs[k].stage = "free"
                       /\ \A m \in ReqIds : reqs[m].stage = "free" => k <= m
            IN  /\ logs' = addLog(logs, "Analyzing: \"" \o selectedText \o "...\"", "info")
                /\ reqs' = [reqs EXCEPT ![i] = [stage |-> "plan", text |-> selectedText,
                                                colabUrl |-> colabUrl, script |-> ""]]
                /\ effectPending' = TRUE
                /\ UNCHANGED <<selectedText, isScanning, vizType, vizScript, glbUrl, colabUrl>>
                /\ UNCHANGED <<objectUrls, ocrBlocks, camera, mounted, tracks, layout, loops, cur, superseded>>
    /\ UNCHANGED sceneVars

\* the Visualise button, rendered while a block is selected and nothing is
\* visualized: onClick={handleVisualise}
handleVisualise ==
    /\ ButtonsShown
    /\ handleVisualiseCall

\* catch (err): addLog(err.message || "Unknown error occurred", "error")
Catch(i, message) ==
    /\ logs' = addLog(logs, IF message = "" THEN "Unknown error occurred" ELSE message, "error")
    /\ reqs' = [reqs EXCEPT ![i] = FreeReq]
    /\ effectPending' = TRUE
    /\ UNCHANGED <<selectedText, isScanning, vizType, vizScript, glbUrl, colabUrl>>
    /\ UNCHANGED <<objectUrls, ocrBlocks, camera, mounted, tracks, layout, loops, cur, superseded>>
    /\ UNCHANGED sceneVars

\* PlanNotOK with a retry: the failure is logged and the plan fetched again
PlanNotOKRetries(i) ==
    /\ reqs[i].stage = "plan"
    /\ logs' = addLog(logs, "Failed to fetch visualization plan", "error")
    /\ effectPending' = TRUE
    /\ UNCHANGED <<selectedText, isScanning, vizType, vizScript, glbUrl, colabUrl>>
    /\ UNCHANGED <<vizVars, ocrBlocks, camera, mounted, tracks, layout, loops, cur, superseded>>
    /\ UNCHANGED sceneVars

\* !res.ok: throw new Error('Failed to fetch visualization plan')
PlanNotOK(i) ==
    /\ reqs[i].stage = "plan"
    /\ Catch(i, "Failed to fetch visualization plan")

\* fetch('/api/visualize') rejects, or res.json() throws
PlanThrows(i, message) ==
    /\ reqs[i].stage = "plan"
    /\ Catch(i, message)

Decision(data) == "Decision: " \o data.type \o " (" \o data.reasoning \o ")"

\* PlanOK without "if (!colabUrl)": a 3D plan always goes on to the renderer
PlanOKNoUrlCheck(i, data) ==
    /\ reqs[i].stage = "plan"
    /\ LET logged == addLog(logs, Decision(data), "success")
       IN  IF data.type = "2D"
           THEN /\ vizType' = "2D"
                /\ vizScript' = data.script
                /\ logs' = logged
                /\ reqs' = [reqs EXCEPT ![i] = FreeReq]
                /\ UNCHANGED <<selectedText, isScanning, glbUrl, colabUrl>>
           ELSE /\ logs' = addLog(logged, "Sending to 3D Renderer (Colab)...", "info")
                /\ reqs' = [reqs EXCEPT ![i].stage = "render", ![i].script = data.script]
                /\ UNCHANGED <<selectedText, isScanning, vizType, vizScript, glbUrl, colabUrl>>
    /\ effectPending' = TRUE
    /\ UNCHANGED <<objectUrls, ocrBlocks, camera, mounted, tracks, layout, loops, cur, superseded>>
    /\ UNCHANGED sceneVars

\* res.ok: the plan arrives; handleVisualise runs on to its next await or end
PlanOK(i, data) ==
    /\ reqs[i].stage = "plan"
    /\ LET logged == addLog(logs, Decision(data), "success")
       IN  IF data.type = "2D"
           THEN /\ vizType' = "2D"
                /\ vizScript' = data.script
                /\ logs' = logged
                /\ reqs' = [reqs EXCEPT ![i] = FreeReq]
                /\ UNCHANGED <<selectedText, isScanning, glbUrl, colabUrl>>
           ELSE IF reqs[i].colabUrl = ""
           THEN /\ logs' = addLog(logged, "Error: Colab Backend URL is missing", "error")
                /\ reqs' = [reqs EXCEPT ![i] = FreeReq]
                /\ UNCHANGED <<selectedText, isScanning, vizType, vizScript, glbUrl, colabUrl>>
           ELSE /\ logs' = addLog(logged, "Sending to 3D Renderer (Colab)...", "info")
                /\ reqs' = [reqs EXCEPT ![i].stage = "render", ![i].script = data.script]
                /\ UNCHANGED <<selectedText, isScanning, vizType, vizScript, glbUrl, colabUrl>>
    /\ effectPending' = TRUE
    /\ UNCHANGED <<objectUrls, ocrBlocks, camera, mounted, tracks, layout, loops, cur, superseded>>
    /\ UNCHANGED sceneVars

\* URL.createObjectURL(blob): a URL no earlier call returned
NewObjectUrl == "blob:" \o NumStr(Cardinality(objectUrls) + 1)

\* RenderNotOK with the blob read before colabRes.ok is tested: the error
\* body becomes an object URL and then the error is thrown
RenderNotOKAfterBlob(i) ==
    /\ reqs[i].stage = "render"
    /\ objectUrls' = objectUrls \cup {NewObjectUrl}
    /\ logs' = addLog(logs, "Colab rendering failed", "error")
    /\ reqs' = [reqs EXCEPT ![i] = FreeReq]
    /\ effectPending' = TRUE
    /\ UNCHANGED <<selectedText, isScanning, vizType, vizScript, glbUrl, colabUrl>>
    /\ UNCHANGED <<ocrBlocks, camera, mounted, tracks, layout, loops, cur, superseded>>
    /\ UNCHANGED sceneVars

\* !colabRes.ok: throw new Error('Colab rendering failed')
RenderNotOK(i) ==
    /\ reqs[i].stage = "render"
    /\ Catch(i, "Colab rendering failed")

\* fetch(colabUrl + '/render') rejects, or colabRes.blob() throws
RenderThrows(i, message) ==
    /\ reqs[i].stage = "render"
    /\ Catch(i, message)

\* colabRes.ok: the binary arrives
RenderOK(i) ==
    /\ reqs[i].stage = "render"
    /\ objectUrls' = objectUrls \cup {NewObjectUrl}
    /\ glbUrl' = NewObjectUrl
    /\ vizType' = "3D"
    /\ logs' = addLog(logs, "3D Model received and loaded", "success")
    /\ reqs' = [reqs EXCEPT ![i] = FreeReq]
    /\ effectPending' = TRUE
    /\ UNCHANGED <<selectedText, isScanning, vizScript, colabUrl>>
    /\ UNCHANGED <<ocrBlocks, camera, mounted, tracks, layout, loops, cur, superseded>>
    /\ UNCHANGED sceneVars

\* --------------------------------------- the session over a detected page
\* The state after: the first timeout fires before the video has data, the
\* camera becomes ready, the OCR effect re-runs, its timeout fires and the
\* detection call answers with BlockA and BlockB.
InitViz ==
    /\ SceneInit
    /\ logs = <<Entry("Camera Ready: 1920x1080", "info"),
                Entry("Detected 2 text blocks via Gemini", "info")>>
    /\ selectedText = ""
    /\ isScanning = TRUE
    /\ vizType = NULL
    /\ vizScript = ""
    /\ glbUrl = NULL
    /\ colabUrl = ""
    /\ reqs = [i \in ReqIds |-> FreeReq]
    /\ objectUrls = {}
    /\ ocrBlocks = <<BlockA, BlockB>>
    /\ camera = "ready"
    /\ mounted = TRUE
    /\ tracks = "live"
    /\ layout = [rect |-> Rect, canvas |-> Canvas]
    /\ loops = [j \in LoopIds |->
                  IF j = 1 THEN [interval |-> TRUE, timeout |-> FALSE, isProcessing |-> FALSE]
                           ELSE IdleLoop]
    /\ cur = 1
    /\ effectPending = TRUE
    /\ superseded = {}

\* The handlers of Home; the capture loop takes no step meanwhile.
NextViz ==
    \/ \E p \in ClickPoints : handleCanvasClick(p)
    \/ \E u \in ColabUrls : setColabUrl(u)
    \/ handleVisualise
    \/ \E i \in ReqIds : PlanNotOK(i)
    \/ \E i \in ReqIds, m \in ThrownMessages : PlanThrows(i, m)
    \/ \E i \in ReqIds, data \in Plans : PlanOK(i, data)
    \/ \E i \in ReqIds : RenderNotOK(i)
    \/ \E i \in ReqIds, m \in ThrownMessages : RenderThrows(i, m)
    \/ \E i \in ReqIds : RenderOK(i)
    \/ handleReset

SpecViz == InitViz /\ [][NextViz]_vars

\* ------------------------------------- handleVisualise called at any time
\* Home with handleVisualise called in every state, the states where its
\* button is not rendered included.  No rendering endpoint is configured.
NextCall ==
    \/ \E p \in ClickPoints : handleCanvasClick(p)
    \/ handleVisualiseCall
    \/ \E i \in ReqIds : PlanNotOK(i)
    \/ \E i \in ReqIds, m \in ThrownMessages : PlanThrows(i, m)
    \/ \E i \in ReqIds, data \in Plans : PlanOK(i, data)
    \/ handleReset

SpecCall == InitViz /\ [][NextCall]_vars

\* InitViz is a state of the capture loop
NotInitViz == ~InitViz

\* ------------------------------------------- clicks on a detected page
\* outputs of the vision model for the first detection call
ClickOutputs == { <<ItemA, ItemB>>, <<ItemB, ItemA>>, <<ItemB>> }

\* The state after the first detection response, for each of these outputs
\* and each size of the canvas.
InitClick ==
    /\ SceneInit
    /\ \E o \in ClickOutputs :
          /\ ocrBlocks = MapBlocks(o)
          /\ logs = <<Entry("Camera Ready: 1920x1080", "info"),
                      Entry("Detected " \o NumStr(Len(o)) \o " text blocks via Gemini", "info")>>
    /\ layout \in Layouts
    /\ selectedText = ""
    /\ isScanning = TRUE
    /\ vizType = NULL
    /\ vizScript = ""
    /\ glbUrl = NULL
    /\ colabUrl = ""
    /\ reqs = [i \in ReqIds |-> FreeReq]
    /\ objectUrls = {}
    /\ camera = "ready"
    /\ mounted = TRUE
    /\ tracks = "live"
    /\ loops = [j \in LoopIds |->
                  IF j = 1 THEN [interval |-> TRUE, timeout |-> FALSE, isProcessing |-> FALSE]
                           ELSE IdleLoop]
    /\ cur = 1
    /\ effectPending = TRUE
    /\ superseded = {}

\* the pointer and the Cancel button; the capture loop takes no step
NextClick ==
    \/ \E p \in ClickPoints : handleCanvasClick(p)
    \/ handleReset

SpecClick == InitClick /\ [][NextClick]_vars

\* ------------------------------------------------------------- TwoDScene
\* the cleanup React holds for the last run of the effect, if it returned one:
\* window.removeEventListener('resize', resizeCanvas);
\* cancelAnimationFrame(animationFrameRef.current)
ListenersAfterCleanup == IF cleanup = 0 THEN listeners ELSE listeners \ {cleanup}
RafAfterCleanup ==
    IF cleanup = 0 THEN rafPending ELSE { r \in rafPending : r.effect # animationFrame }

\* RunEffect without the "return" of the catch block: after a compile
\* failure render() starts with drawFrame null, and the cleanup is returned
RunEffectNoReturn(s, e, n, ls, rafs) ==
    /\ effects' = e
    /\ sceneScript' = s
    /\ listeners' = ls \cup {e}
    /\ lastDraw' = IF Compiles(s) THEN [effect |-> e, script |-> s, frameCount |-> n]
                                  ELSE lastDraw
    /\ canvasShows' = IF Compiles(s) /\ ~Throws(s, n) THEN "frame" ELSE "blank"
    /\ frameCount' = n + 1
    /\ rafPending' = rafs \cup {[effect |-> e, script |-> s]}
    /\ animationFrame' = e
    /\ cleanup' = e

\* The body of the effect for script s, as run e, with frameCountRef at n and
\* the listeners and pending frames left by the cleanup before it.
RunEffect(s, e, n, ls, rafs) ==
    /\ effects' = e
    /\ sceneScript' = s
    /\ listeners' = ls \cup {e}
    /\ IF ~Compiles(s)
       THEN \* catch (e): draw "Script Error" and return; no cleanup is returned
            /\ canvasShows' = "error"
            /\ cleanup' = 0
            /\ rafPending' = rafs
            /\ frameCount' = n
            /\ UNCHANGED <<animationFrame, lastDraw>>
       ELSE \* render() once, synchronously
            /\ lastDraw' = [effect |-> e, script |-> s, frameCount |-> n]
            /\ canvasShows' = IF Throws(s, n) THEN "blank" ELSE "frame"
            /\ frameCount' = n + 1
            /\ rafPending' = rafs \cup {[effect |-> e, script |-> s]}
            /\ animationFrame' = e
            /\ cleanup' = e

\* Home renders <TwoDScene script={s} />: a new instance with fresh refs
Mount(s) ==
    /\ sceneScript = NULL
    /\ effects < MaxEffects
    /\ RunEffect(s, effects + 1, 0, listeners, rafPending)
    /\ UNCHANGED <<homeVars, vizVars, feedVars>>

\* the script prop changes: cleanup of the last run, then the effect again
SetScript(s) ==
    /\ sceneScript # NULL
    /\ sceneScript # s
    /\ effects < MaxEffects
    /\ RunEffect(s, effects + 1, frameCount, ListenersAfterCleanup, RafAfterCleanup)
    /\ UNCHANGED <<homeVars, vizVars, feedVars>>

\* the component is removed: cleanup of the last run
Unmount ==
    /\ sceneScript # NULL
    /\ sceneScript' = NULL
    /\ listeners' = ListenersAfterCleanup
    /\ rafPending' = RafAfterCleanup
    /\ cleanup' = 0
    /\ UNCHANGED <<effects, frameCount, animationFrame, canvasShows, lastDraw>>
    /\ UNCHANGED <<homeVars, vizVars, feedVars>>

\* AnimationFrame without the try/catch around drawFrame: a throw leaves
\* render() before frameCountRef.current++ and requestAnimationFrame
AnimationFrameThrowStops(r) ==
    /\ r \in rafPending
    /\ frameCount < MaxFrameCount
    /\ lastDraw' = [effect |-> r.effect, script |-> r.script, frameCount |-> frameCount]
    /\ IF Throws(r.script, frameCount)
       THEN /\ canvasShows' = "blank"
            /\ rafPending' = rafPending \ {r}
            /\ UNCHANGED <<frameCount, animationFrame>>
       ELSE /\ canvasShows' = "frame"
            /\ frameCount' = frameCount + 1
            /\ animationFrame' = r.effect
            /\ UNCHANGED rafPending
    /\ UNCHANGED <<sceneScript, effects, listeners, cleanup>>
    /\ UNCHANGED <<homeVars, vizVars, feedVars>>

\* the browser runs a requested animation frame: render()
AnimationFrame(r) ==
    /\ r \in rafPending
    /\ frameCount < MaxFrameCount
    /\ lastDraw' = [effect |-> r.effect, script |-> r.script, frameCount |-> frameCount]
    /\ canvasShows' = IF Throws(r.script, frameCount) THEN "blank" ELSE "frame"
    /\ frameCount' = frameCount + 1
    /\ animationFrame' = r.effect
    /\ UNCHANGED <<sceneScript, effects, rafPending, listeners, cleanup>>
    /\ UNCHANGED <<homeVars, vizVars, feedVars>>

\* ------------------------------------------ one TwoDScene and its parent
NextScene ==
    \/ \E s \in Scripts : Mount(s)
    \/ \E s \in Scripts : SetScript(s)
    \/ Unmount
    \/ \E r \in RafRequests : AnimationFrame(r)

SpecScene == Init /\ [][NextScene]_vars

\* ==================================================================== claims
VisualisePending == { i \in ReqIds : reqs[i].stage # "free" }

\* the invocations awaiting fetch('/api/visualize')
PlanCalls == { i \in ReqIds : reqs[i].stage = "plan" }

MissingUrlMessage == "Error: Colab Backend URL is missing"

\* a step in which the planning call of i fails: !res.ok, or a thrown error
PlanFails(i) == PlanNotOK(i) \/ \E m \in ThrownMessages : PlanThrows(i, m)

\* a step in which the rendering call of i fails
RenderFails(i) == RenderNotOK(i) \/ \E m \in ThrownMessages : RenderThrows(i, m)

\* the step changes nothing of the session: selection, visualization, handles
SessionUntouched ==
    /\ selectedText' = selectedText
    /\ isScanning' = isScanning
    /\ vizType' = vizType
    /\ vizScript' = vizScript
    /\ glbUrl' = glbUrl
    /\ objectUrls' = objectUrls

\* C1: at most one detection call is outstanding in every reachable state
\* of the capture loop, whatever the timers, toggles and re-runs of the OCR
\* effect do.
C1_SingleFlight == Cardinality(Outstanding) <= 1

\* C2: a detection call started before a reset or before a selection paused
\* scanning, and answered afterwards, never changes the displayed block list.
C2_StaleResponseDiscarded ==
    [][\A j \in superseded :
          (loops[j].isProcessing /\ ~loops'[j].isProcessing) => ocrBlocks' = ocrBlocks]_vars

\* C3: right after handleReset the selection and the displayed block list
\* are both empty.
C3_ResetClearsSelectionAndBlocks ==
    [][handleReset => (selectedText' = "" /\ ocrBlocks' = <<>>)]_vars

\* C4: reset is enabled in every session state, the Visualizing states
\* included: whenever a visualization is live, handleReset can be taken.
C4_ResetEnabledWhileVisualizing == vizType # NULL => ENABLED handleReset

\* C5: at most one visualize action is in flight at any time.
C5_OneVisualisePending == Cardinality(VisualisePending) <= 1

\* C6: the planning collaborator is called once per visualize action (a
\* planning call starts only in a handleVisualise step, one per step) and a
\* failed call is not retried: the failure ends the action, starts no
\* rendering call, logs an error and leaves selection, vizType, script and
\* asset URL as they were.
C6_PlanFailureLeavesSession ==
    [][/\ \/ PlanCalls' \subseteq PlanCalls
          \/ handleVisualise /\ Cardinality(PlanCalls' \ PlanCalls) = 1
       /\ \A i \in ReqIds :
             PlanFails(i) =>
                 /\ reqs' = [reqs EXCEPT ![i] = FreeReq]
                 /\ SessionUntouched
                 /\ logs'[Len(logs')].type = "error"
                 /\ logs'[Len(logs')].message # MissingUrlMessage]_vars

\* a planning call has failed: the error is the newest log entry and the
\* session is still Selected
C6_Witness ==
    /\ logs # <<>>
    /\ logs[Len(logs)] = Entry("Failed to fetch visualization plan", "error")
    /\ selectedText # ""
    /\ vizType = NULL
    /\ VisualisePending = {}

\* C7: a 3D plan with no rendering endpoint configured (the colabUrl the
\* handler sees is empty) attempts no rendering call, logs the
\* missing-configuration error and leaves the session as it was.
C7_MissingEndpointNoRenderCall ==
    [][\A i \in ReqIds, data \in Plans :
          (PlanOK(i, data) /\ data.type = "3D" /\ reqs[i].colabUrl = "") =>
              /\ reqs' = [reqs EXCEPT ![i] = FreeReq]
              /\ SessionUntouched
              /\ logs'[Len(logs')] = Entry(MissingUrlMessage, "error")]_vars

\* the missing-endpoint error has been reported and the session is Selected
C7_Witness ==
    /\ logs # <<>>
    /\ logs[Len(logs)] = Entry(MissingUrlMessage, "error")
    /\ selectedText # ""
    /\ vizType = NULL
    /\ glbUrl = NULL
    /\ VisualisePending = {}

\* C8: a failed rendering call ends the visualize action with an error entry
\* that is not the missing-endpoint message, creates no object URL and
\* leaves vizType and the selection as they were.
C8_RenderFailureAborts ==
    [][\A i \in ReqIds :
          RenderFails(i) =>
              /\ reqs' = [reqs EXCEPT ![i] = FreeReq]
              /\ SessionUntouched
              /\ logs'[Len(logs')].type = "error"
              /\ logs'[Len(logs')].message # MissingUrlMessage]_vars

\* a rendering call has failed and the session is Selected, with no handle
C8_Witness ==
    /\ logs # <<>>
    /\ logs[Len(logs)] = Entry("Colab rendering failed", "error")
    /\ selectedText # ""
    /\ vizType = NULL
    /\ objectUrls = {}
    /\ VisualisePending = {}

\* C9: every object URL created for a 3D asset is released once its
\* visualization is replaced or the session is reset: the only unreleased
\* URL is the one of the 3D visualization on display.
C9_HandlesReleased ==
    /\ objectUrls \subseteq {glbUrl}
    /\ objectUrls # {} => vizType = "3D"

\* C10: while a script that does not compile is mounted, the canvas shows
\* the error surface, no animation frame is pending and the run of the
\* effect for that script has drawn nothing.
C10_CompileFailureNoFrameLoop ==
    (sceneScript # NULL /\ ~Compiles(sceneScript)) =>
        /\ canvasShows = "error"
        /\ rafPending = {}
        /\ lastDraw.effect # effects

\* a script that does not compile has replaced one that was running
C10_Witness ==
    /\ sceneScript = "ctx.fillRect("
    /\ frameCount > 1
    /\ canvasShows = "error"

\* a step in which drawFrame is invoked (by render(), from the effect body
\* or from an animation frame)
DrawStep == lastDraw' # lastDraw

\* C11: the first invocation of the draw callable by a run of the effect
\* (a mount, or a script replacing a running one) receives frameCount 0, and
\* every later invocation by that run receives the previous frameCount plus 1.
C11_FrameCountFromZero ==
    [][DrawStep =>
          IF lastDraw'.effect # lastDraw.effect
          THEN lastDraw'.frameCount = 0
          ELSE lastDraw'.frameCount = lastDraw.frameCount + 1]_vars

\* C12: when the draw callable throws on tick n the frame counter still
\* advances to n + 1 and the next frame of the same run stays requested, and
\* the invocation that follows a throwing one receives n + 1.
C12_ThrowDoesNotStopLoop ==
    [][/\ (DrawStep /\ Throws(lastDraw'.script, lastDraw'.frameCount)) =>
             /\ frameCount' = lastDraw'.frameCount + 1
             /\ [effect |-> lastDraw'.effect, script |-> lastDraw'.script] \in rafPending'
       /\ (DrawStep /\ Throws(lastDraw.script, lastDraw.frameCount)
                     /\ lastDraw'.effect = lastDraw.effect) =>
             lastDraw'.frameCount = lastDraw.frameCount + 1]_vars

\* the only run of the effect drew frame 1, which threw, and then frame 2
C12_Witness ==
    /\ effects = 1
    /\ Throws(lastDraw.script, 1)
    /\ lastDraw.effect = 1
    /\ lastDraw.frameCount = 2
    /\ frameCount = 3

\* C13: the only animation frames pending and the only resize listeners
\* attached are those of the run of the effect that is currently mounted;
\* after an unmount or a script replacement nothing of the earlier run is
\* left, whether its script compiled or not.
C13_TeardownReleasesAll ==
    /\ \A r \in rafPending : sceneScript # NULL /\ r.effect = effects
    /\ \A e \in listeners : sceneScript # NULL /\ e = effects

\* C14: once the capture component is torn down no acquired camera stream
\* is left running: its tracks have been stopped.
C14_StreamReleasedOnTeardown == ~mounted => tracks # "live"

CameraError == Entry("Failed to access camera", "error")

\* C15: once camera access has failed it stays failed (no retry), the log
\* holds the one error entry for it, no detection call is outstanding and
\* the session is idle: nothing selected, no visualization, scanning on.
C15_CameraFailureIsFinal ==
    [][/\ camera = "failed" => camera' = "failed"
       /\ camera' = "failed" =>
             /\ Outstanding' = {}
             /\ logs' = <<CameraError>>
             /\ selectedText' = ""
             /\ vizType' = NULL
             /\ isScanning']_vars

\* camera access failed, the OCR effect re-ran for the log entry, and the
\* 1 s timeout of the new closure has fired without starting a call
C15_Witness ==
    /\ camera = "failed"
    /\ mounted
    /\ cur = 2
    /\ loops[2].interval
    /\ ~loops[2].timeout
    /\ Outstanding = {}

\* C16: a detection call that ends with a non-OK response or a thrown error
\* appends an error entry to the log.
C16_DetectionFailureLogged ==
    [][\A j \in LoopIds :
          (mounted /\ (OCRResponseNotOK(j) \/ OCRFetchThrows(j))) =>
              /\ logs' # logs
              /\ logs'[Len(logs')].type = "error"]_vars

\* C18: a malformed detection response (the route answers 500 because the
\* model's text does not parse, or the body holds no array of blocks) empties
\* the displayed block list and appends a log entry.
C18_MalformedResponseIsEmptyResult ==
    [][\A j \in LoopIds :
          (mounted /\ (OCRResponseNotOK(j) \/ OCRResponseNoBlocks(j))) =>
              /\ ocrBlocks' = <<>>
              /\ logs' # logs]_vars

\* 0 <= x0 <= x1 <= 1 and 0 <= y0 <= y1 <= 1
Normalized(bbox) ==
    /\ RatLeq(Rat(0, 1), bbox.x0) /\ RatLeq(bbox.x0, bbox.x1) /\ RatLeq(bbox.x1, Rat(1, 1))
    /\ RatLeq(Rat(0, 1), bbox.y0) /\ RatLeq(bbox.y0, bbox.y1) /\ RatLeq(bbox.y1, Rat(1, 1))

\* C19: every block of the displayed block list has a normalized bbox.
C19_DisplayedBlocksNormalized ==
    \A k \in 1 .. Len(ocrBlocks) : Normalized(ocrBlocks[k].bbox)

\* a step in which the detection call of closure j completes
Completes(j) ==
    \/ \E blocks \in Responses : OCRResponseOK(j, blocks)
    \/ OCRResponseNoBlocks(j)
    \/ OCRResponseNotOK(j)
    \/ OCRFetchThrows(j)

\* C17: a detection call that completes (successful response, non-OK
\* response or thrown error) releases its isProcessing flag, and whenever the
\* camera is ready and no call is outstanding a timer tick eventually starts
\* a new call, unless the component is unmounted first.
C17_LoopNeverWedges ==
    /\ [][\A j \in LoopIds : Completes(j) => ~loops'[j].isProcessing]_vars
    /\ (mounted /\ camera = "ready" /\ Outstanding = {}) ~> (Outstanding # {} \/ ~mounted)

\* a detection call has completed (its result is the newest log entry) and
\* the closure of the effect run that followed has started the next call
C17_Witness ==
    /\ mounted
    /\ logs # <<>>
    /\ logs[Len(logs)] = Entry("Detected 2 text blocks via Gemini", "info")
    /\ ~effectPending
    /\ cur \in Outstanding

RatEq(a, b) == a[1] * b[2] = b[1] * a[2]

\* the Block the contract asks for: {x0: xmin/1000, y0: ymin/1000,
\* x1: xmax/1000, y1: ymax/1000} for box_2d = [ymin, xmin, ymax, xmax]
IsEmitted(block, item) ==
    /\ block.text = item.text
    /\ RatEq(block.bbox.x0, Rat(item.box_2d[2], 1000))
    /\ RatEq(block.bbox.y0, Rat(item.box_2d[1], 1000))
    /\ RatEq(block.bbox.x1, Rat(item.box_2d[4], 1000))
    /\ RatEq(block.bbox.y1, Rat(item.box_2d[3], 1000))

\* C20: for every output that keeps to the box_2d contract, the block list
\* stored from the response has one block per item, in the order of the
\* output, each with the item's text and its coordinates divided by 1000,
\* and each normalized.
C20_ValidOutputsNormalize ==
    [][\A j \in LoopIds, o \in ValidOutputs :
          OCRResponseOK(j, MapBlocks(o)) =>
              /\ Len(ocrBlocks') = Len(o)
              /\ \A k \in 1 .. Len(o) :
                     /\ IsEmitted(ocrBlocks'[k], o[k])
                     /\ Normalized(ocrBlocks'[k].bbox)]_vars

\* the response for the output [Mitochondria, Photosynthesis] is displayed
C20_Witness ==
    /\ Len(ocrBlocks) = 2
    /\ ocrBlocks[1].text = "Mitochondria"
    /\ ocrBlocks[1].bbox = [x0 |-> Rat(400, 1000), y0 |-> Rat(200, 1000),
                            x1 |-> Rat(800, 1000), y1 |-> Rat(500, 1000)]
    /\ ocrBlocks[2].text = "Photosynthesis"
    /\ ocrBlocks[2].bbox = [x0 |-> Rat(200, 1000), y0 |-> Rat(100, 1000),
                            x1 |-> Rat(600, 1000), y1 |-> Rat(300, 1000)]

\* the blocks of the displayed list that contain the normalized point
Inside(x, y) ==
    { k \in 1 .. Len(ocrBlocks) :
        /\ RatLeq(ocrBlocks[k].bbox.x0, x) /\ RatLeq(x, ocrBlocks[k].bbox.x1)
        /\ RatLeq(ocrBlocks[k].bbox.y0, y) /\ RatLeq(y, ocrBlocks[k].bbox.y1) }

\* C21: a click whose normalized point lies in one or more blocks makes the
\* selection the first of them in list order; a click that lies in no block
\* leaves the selection and the scanning flag as they were.
C21_HitTestSelectsFirst ==
    [][\A p \in ClickPoints :
          handleCanvasClick(p) =>
              LET inside == Inside(NormX(p[1]), NormY(p[2]))
              IN  IF inside = {}
                  THEN selectedText' = selectedText /\ isScanning' = isScanning
                  ELSE \E k \in inside :
                          /\ \A m \in inside : k <= m
                          /\ selectedText' = ocrBlocks[k].text]_vars

\* the list is [Mitochondria, Photosynthesis] and a click has selected the
\* first of the two
C21_Witness ==
    /\ ocrBlocks = <<BlockB, BlockA>>
    /\ selectedText = BlockB.text
    /\ ~isScanning
    /\ logs[Len(logs)] = Entry("Selected: \"Mitochondria\"", "success")

\* C22: a click on the block that is already selected deselects it.
C22_ClickOnSelectedDeselects ==
    [][\A p \in ClickPoints :
          LET inside == Inside(NormX(p[1]), NormY(p[2]))
          IN  (/\ handleCanvasClick(p)
               /\ inside # {}
               /\ \E k \in inside : (\A m \in inside : k <= m) /\ ocrBlocks[k].text = selectedText)
                  => selectedText' = ""]_vars

\* C23: for every size of the canvas, the normalized point the hit-test uses
\* is ((clientX - rect.left) / rect.width, (clientY - rect.top) / rect.height).
C23_PointerScaling ==
    \A p \in ClickPoints :
        /\ RatEq(NormX(p[1]), Rat(p[1] - layout.rect.left, layout.rect.width))
        /\ RatEq(NormY(p[2]), Rat(p[2] - layout.rect.top, layout.rect.height))

\* a click has selected a block on a canvas of 1920x1080 pixels displayed
\* in a 100x50 box
C23_Witness ==
    /\ layout.canvas = [width |-> 1920, height |-> 1080]
    /\ layout.rect = Rect
    /\ selectedText # ""

\* C24: a successful detection response replaces the displayed block list
\* by the response's list, in its order; an empty response empties it.
C24_ResponseReplacesList ==
    [][\A j \in LoopIds, blocks \in Responses :
          (mounted /\ OCRResponseOK(j, blocks)) => ocrBlocks' = blocks]_vars

\* an empty response has followed a response with blocks
C24_Witness ==
    /\ ocrBlocks = <<>>
    /\ Len(logs) >= 2
    /\ logs[Len(logs) - 1] = Entry("Detected 2 text blocks via Gemini", "info")
    /\ logs[Len(logs)] = Entry("Detected 0 text blocks via Gemini", "info")

\* C25: a non-empty selection is the text of a block of the displayed list.
C25_SelectionInDisplayedList ==
    selectedText # "" => \E k \in 1 .. Len(ocrBlocks) : ocrBlocks[k].text = selectedText

\* C26: no detection call starts while scanning is disabled.
C26_NoCallWhileScanningDisabled ==
    [][\A j \in LoopIds :
          (~isScanning /\ ~loops[j].isProcessing) => ~loops'[j].isProcessing]_vars

\* C27: a click that hits a block disables scanning, and only handleReset
\* takes the scanning flag from false to true.
C27_ScanningOffUntilReset ==
    [][/\ \A p \in ClickPoints :
             (handleCanvasClick(p) /\ Inside(NormX(p[1]), NormY(p[2])) # {}) => ~isScanning'
       /\ (~isScanning /\ isScanning') => handleReset]_vars

\* a block was selected and its visualization is live: scanning is still off
C27_Witness ==
    /\ selectedText # ""
    /\ vizType = "2D"
    /\ ~isScanning

\* C28: a visualization is live only with a non-empty selection.
C28_VisualizationNeedsSelection == vizType # NULL => selectedText # ""

\* C29: whenever vizType is set, TwoDScene or ThreeScene is rendered.
C29_VisualizingIsMounted == vizType # NULL => (ThreeSceneMounted \/ TwoDSceneMounted)

\* C30: handleVisualise called with an empty selection changes nothing: no
\* planning call, no log entry, selection, scanning flag and visualization
\* as they were.
C30_EmptySelectionNoOp ==
    [][(selectedText = "" /\ handleVisualiseCall) => UNCHANGED <<homeVars, vizVars, feedVars>>]_vars

\* nothing is selected after a reset, and handleVisualise can be called
C30_Witness ==
    /\ selectedText = ""
    /\ logs[Len(logs)] = Entry("System reset. Resume scanning.", "info")
    /\ ENABLED handleVisualiseCall

====
